---- MODULE Spec2Model ----
(***************************************************************************)
(* Model of packages/ccda/src/fhir-to-qrda.ts: the FHIR bundle to QRDA     *)
(* Category I document assembler, its template registry and the two        *)
(* collaborators it calls (timestamp canonicalization, ID generation).     *)
(*                                                                         *)
(* JavaScript values are modelled as follows.  A string is a TLA+ string;  *)
(* `undefined` where a string is expected is the reserved token Undefined. *)
(* An object is a record; an optional property that is not supplied is a   *)
(* field missing from the record's DOMAIN.  A timestamp string is a        *)
(* sequence of one-character strings, so that canonicalization can be      *)
(* computed character by character.  An array held by reference (the       *)
(* template tables) lives in `heap` and is named by its address; every     *)
(* other node of a Document is an object literal created by the call and   *)
(* is part of the Document's value.  Each behaviour draws its calls from   *)
(* one pool of (bundle, options) pairs, chosen in the initial state.       *)
(***************************************************************************)
EXTENDS Integers, Sequences, FiniteSets, TLC

VARIABLES
  heap,     \* address -> array of template identifiers (module-level tables)
  docs,     \* the Documents returned so far, oldest first
  last,     \* what the latest call of convertFhirToQrda did
  clock,    \* the system clock, in seconds after 2026-11-02T00:00:00Z
  nextId,   \* state of the ID-generation collaborator
  calls,    \* number of calls of convertFhirToQrda so far
  pushes,   \* number of changes callers have made to returned documents
  pool      \* the inputs the callers of this run draw from

vars == <<heap, docs, last, clock, nextId, calls, pushes, pool>>

(***************************************************************************)
(* Bounds of the model.                                                    *)
(***************************************************************************)
MaxCalls == 2    \* calls of convertFhirToQrda in one behaviour
MaxClock == 1    \* the clock stops advancing at this reading
MaxPushes == 1   \* caller changes to returned template lists

(***************************************************************************)
(* JavaScript value helpers.                                               *)
(***************************************************************************)
Undefined == "<undefined>"
UndefinedObj == [undefined |-> TRUE]
UndefinedChars == <<"<undefined>">>
Empty == [f \in {} |-> ""]

Has(obj, f) == f \in DOMAIN obj

\* obj?.f for a string-valued property
Prop(obj, f) == IF Has(obj, f) THEN obj[f] ELSE Undefined

\* obj?.f for an object-valued property (Empty stands for undefined)
Sub(obj, f) == IF Has(obj, f) THEN obj[f] ELSE Empty

\* arr?.[0] for an array-valued property holding strings
FirstStr(obj, f) ==
  IF Has(obj, f) /\ Len(obj[f]) > 0 THEN obj[f][1] ELSE Undefined

\* arr?.[0] for an array-valued property holding objects
FirstObj(obj, f) ==
  IF Has(obj, f) /\ Len(obj[f]) > 0 THEN obj[f][1] ELSE Empty

\* a || b on strings: undefined and '' are falsy
OrElse(a, b) == IF a = Undefined \/ a = "" THEN b ELSE a

\* a ?? b on strings: only undefined is nullish
Nullish(a, b) == IF a = Undefined THEN b ELSE a

\* `${v}`: template-literal rendering of a string or undefined
Render(v) == IF v = Undefined THEN "undefined" ELSE v

\* v + '...' on a timestamp string or undefined
RenderChars(v) ==
  IF v = UndefinedChars THEN <<"u", "n", "d", "e", "f", "i", "n", "e", "d">>
  ELSE v

\* Boolean(x) as used by [...].filter(Boolean) on objects
Truthy(x) == x # UndefinedObj

\* telecom.find((t) => t.system === system), scanning from index i:
\* the index of the first match, 0 if there is none
RECURSIVE FindBySystem(_, _, _)
FindBySystem(telecoms, system, i) ==
  IF i > Len(telecoms) THEN 0
  ELSE IF Prop(telecoms[i], "system") = system THEN i
  ELSE FindBySystem(telecoms, system, i + 1)

\* entry.find((e) => e.resource?.resourceType === resourceType), scanning
\* from index i: the index of the first match, 0 if there is none
RECURSIVE FindByResourceType(_, _, _)
FindByResourceType(entries, resourceType, i) ==
  IF i > Len(entries) THEN 0
  ELSE IF Prop(Sub(entries[i], "resource"), "resourceType") = resourceType THEN i
  ELSE FindByResourceType(entries, resourceType, i + 1)

(***************************************************************************)
(* Template registry (qrda-templates.ts) and vocabulary (qrda-systems.ts). *)
(***************************************************************************)
QRDA_CATEGORY_I_TEMPLATE_IDS ==
  << [root |-> "OID_US_REALM_CDA_HEADER", extension |-> "2015-08-01"],
     [root |-> "OID_QRDA_CATEGORY_I", extension |-> "2017-08-01"],
     [root |-> "OID_QDM_BASED_QRDA", extension |-> "2021-08-01"],
     [root |-> "OID_CMS_QRDA_CATEGORY_I", extension |-> "2022-02-01"] >>

QRDA_MEASURE_SECTION_TEMPLATE_IDS ==
  << [root |-> "OID_MEASURE_SECTION"],
     [root |-> "OID_MEASURE_SECTION_QDM"] >>

QRDA_REPORTING_PARAMETERS_TEMPLATE_IDS ==
  << [root |-> "OID_REPORTING_PARAMETERS_SECTION"],
     [root |-> "OID_REPORTING_PARAMETERS_SECTION_CMS", extension |-> "2016-03-01"] >>

QRDA_PATIENT_DATA_SECTION_TEMPLATE_IDS ==
  << [root |-> "OID_PATIENT_DATA_SECTION"],
     [root |-> "OID_PATIENT_DATA_SECTION_QDM_V8", extension |-> "2021-08-01"],
     [root |-> "OID_PATIENT_DATA_SECTION_QDM_V8_CMS", extension |-> "2022-02-01"] >>

QRDA_MEASURE_REFERENCE_TEMPLATE_IDS ==
  << [root |-> "OID_MEASURE_REFERENCE"],
     [root |-> "OID_EMEASURE_REFERENCE_QDM"] >>

QRDA_REPORTING_PARAMETERS_ACT_TEMPLATE_IDS ==
  << [root |-> "OID_REPORTING_PARAMETERS_ACT"],
     [root |-> "OID_REPORTING_PARAMETERS_ACT_CMS", extension |-> "2016-03-01"] >>

\* The module-level arrays, by address, as they are when the module loads.
RegistryTables ==
  [ QRDA_CATEGORY_I_TEMPLATE_IDS |-> QRDA_CATEGORY_I_TEMPLATE_IDS,
    QRDA_MEASURE_SECTION_TEMPLATE_IDS |-> QRDA_MEASURE_SECTION_TEMPLATE_IDS,
    QRDA_REPORTING_PARAMETERS_TEMPLATE_IDS |-> QRDA_REPORTING_PARAMETERS_TEMPLATE_IDS,
    QRDA_PATIENT_DATA_SECTION_TEMPLATE_IDS |-> QRDA_PATIENT_DATA_SECTION_TEMPLATE_IDS,
    QRDA_MEASURE_REFERENCE_TEMPLATE_IDS |-> QRDA_MEASURE_REFERENCE_TEMPLATE_IDS,
    QRDA_REPORTING_PARAMETERS_ACT_TEMPLATE_IDS |-> QRDA_REPORTING_PARAMETERS_ACT_TEMPLATE_IDS ]

RegistryAddrs == DOMAIN RegistryTables

LOINC_MEASURE_DOCUMENT == "55186-1"
LOINC_PATIENT_DATA == "55188-7"
LOINC_QUALITY_MEASURE_REPORT == "55182-0"
LOINC_REPORTING_PARAMETERS == "55187-9"
SNOMED_OBSERVATION_PARAMETERS == "252116004"
CMS68V14_MEASURE_GUID == "9A032D9C-3D9B-11E1-8634-00237D5BF174"

(***************************************************************************)
(* Collaborators.                                                          *)
(***************************************************************************)
Digits == {"0", "1", "2", "3", "4", "5", "6", "7", "8", "9"}

\* YYYY-MM-DD
IsDate(s) ==
  /\ Len(s) = 10
  /\ \A i \in {1, 2, 3, 4, 6, 7, 9, 10} : s[i] \in Digits
  /\ s[5] = "-" /\ s[8] = "-"

\* YYYY-MM-DDThh:mm:ss.fffZ
IsDateTime(s) ==
  /\ Len(s) = 24
  /\ IsDate(SubSeq(s, 1, 10))
  /\ s[11] = "T"
  /\ \A i \in {12, 13, 15, 16, 18, 19, 21, 22, 23} : s[i] \in Digits
  /\ s[14] = ":" /\ s[17] = ":" /\ s[20] = "." /\ s[24] = "Z"

\* whether the canonicalization collaborator accepts the timestamp
Parseable(s) == IsDate(s) \/ IsDateTime(s)

\* mapFhirToCcdaDateTime: calendar timestamp -> wire format
\* (YYYYMMDD, or YYYYMMDDhhmmss+0000 for a UTC date-time)
mapFhirToCcdaDateTime(s) ==
  LET date == SubSeq(s, 1, 4) \o SubSeq(s, 6, 7) \o SubSeq(s, 9, 10)
  IN IF IsDate(s) THEN date
     ELSE date \o SubSeq(s, 12, 13) \o SubSeq(s, 15, 16) \o SubSeq(s, 18, 19)
               \o <<"+", "0", "0", "0", "0">>

\* generateId: the n-th call returns a token no other call returns
generateId(n) == <<"uuid", n>>

\* new Date().toISOString() when the clock reads t seconds
toISOString(t) ==
  << "2", "0", "2", "6", "-", "1", "1", "-", "0", "2", "T",
     "0", "0", ":", "0", "0", ":", "0",
     CHOOSE d \in Digits : d = ToString(t),
     ".", "0", "0", "0", "Z" >>

(***************************************************************************)
(* FhirToQrdaConverter: the section builders.                              *)
(***************************************************************************)
\* findResource: the first entry whose resource has the given type,
\* Empty (undefined) when there is none
findResource(bundle, resourceType) ==
  LET entries == IF Has(bundle, "entry") THEN bundle.entry ELSE <<>>
      i == FindByResourceType(entries, resourceType, 1)
  IN IF i = 0 THEN Empty ELSE entries[i].resource

\* the string handed to the canonicalizer for the patient's birth time
BirthDateTime(patient) ==
  RenderChars(IF Has(patient, "birthDate") THEN patient.birthDate ELSE UndefinedChars)
    \o <<"T", "0", "0", ":", "0", "0", ":", "0", "0", ".", "0", "0", "0", "Z">>

\* buildRecordTarget without the .filter(Boolean) on the telecom list
buildRecordTarget_unfiltered(patient) ==
  LET patientName == FirstObj(patient, "name")
      address == FirstObj(patient, "address")
      telecoms == IF Has(patient, "telecom") THEN patient.telecom ELSE <<>>
      iPhone == FindBySystem(telecoms, "phone", 1)
      iEmail == FindBySystem(telecoms, "email", 1)
      raceCode == "2106-3"
      ethnicityCode == "2135-2"
  IN [ patientRole |->
       [ id |-> [extension |-> Prop(patient, "id"), root |-> "OID_PATIENT_ID"],
         addr |->
           IF address # Empty
           THEN [ use |-> "HP",
                  streetAddressLine |-> Nullish(FirstStr(address, "line"), ""),
                  city |-> Nullish(Prop(address, "city"), ""),
                  state |-> Nullish(Prop(address, "state"), ""),
                  postalCode |-> Nullish(Prop(address, "postalCode"), ""),
                  country |-> OrElse(Prop(address, "country"), "US") ]
           ELSE UndefinedObj,
         telecom |->
           SelectSeq(
             << IF iPhone # 0
                THEN [use |-> "HP", value |-> "tel:" \o Render(Prop(telecoms[iPhone], "value"))]
                ELSE UndefinedObj,
                IF iEmail # 0
                THEN [use |-> "HP", value |-> "mailto:" \o Render(Prop(telecoms[iEmail], "value"))]
                ELSE UndefinedObj >>,
             LAMBDA e : TRUE),
         patient |->
           [ name |-> [ given |-> Nullish(FirstStr(patientName, "given"), ""),
                        family |-> Nullish(Prop(patientName, "family"), "") ],
             administrativeGenderCode |->
               [ code |-> Prop(patient, "gender"),
                 codeSystem |-> "2.16.840.1.113883.5.1",
                 codeSystemName |-> "AdministrativeGender" ],
             birthTime |-> [value |-> mapFhirToCcdaDateTime(BirthDateTime(patient))],
             raceCode |-> [ code |-> raceCode,
                            codeSystem |-> "2.16.840.1.113883.6.238",
                            codeSystemName |-> "CDCREC" ],
             ethnicGroupCode |-> [ code |-> ethnicityCode,
                                   codeSystem |-> "2.16.840.1.113883.6.238",
                                   codeSystemName |-> "CDCREC" ],
             languageCommunication |->
               [ templateId |->
                   << [root |-> "2.16.840.1.113883.3.88.11.83.2", assigningAuthorityName |-> "HITSP/C83"],
                      [root |-> "1.3.6.1.4.1.19376.1.5.3.1.2.1", assigningAuthorityName |-> "IHE/PCC"] >>,
                 languageCode |-> [code |-> "eng"] ] ] ] ]

buildRecordTarget(patient) ==
  LET patientName == FirstObj(patient, "name")
      address == FirstObj(patient, "address")
      telecoms == IF Has(patient, "telecom") THEN patient.telecom ELSE <<>>
      iPhone == FindBySystem(telecoms, "phone", 1)
      iEmail == FindBySystem(telecoms, "email", 1)
      raceCode == "2106-3"
      ethnicityCode == "2135-2"
  IN [ patientRole |->
       [ id |-> [extension |-> Prop(patient, "id"), root |-> "OID_PATIENT_ID"],
         addr |->
           IF address # Empty
           THEN [ use |-> "HP",
                  streetAddressLine |-> Nullish(FirstStr(address, "line"), ""),
                  city |-> Nullish(Prop(address, "city"), ""),
                  state |-> Nullish(Prop(address, "state"), ""),
                  postalCode |-> Nullish(Prop(address, "postalCode"), ""),
                  country |-> OrElse(Prop(address, "country"), "US") ]
           ELSE UndefinedObj,
         telecom |->
           SelectSeq(
             << IF iPhone # 0
                THEN [use |-> "HP", value |-> "tel:" \o Render(Prop(telecoms[iPhone], "value"))]
                ELSE UndefinedObj,
                IF iEmail # 0
                THEN [use |-> "HP", value |-> "mailto:" \o Render(Prop(telecoms[iEmail], "value"))]
                ELSE UndefinedObj >>,
             Truthy),
         patient |->
           [ name |-> [ given |-> Nullish(FirstStr(patientName, "given"), ""),
                        family |-> Nullish(Prop(patientName, "family"), "") ],
             administrativeGenderCode |->
               [ code |-> Prop(patient, "gender"),
                 codeSystem |-> "2.16.840.1.113883.5.1",
                 codeSystemName |-> "AdministrativeGender" ],
             birthTime |-> [value |-> mapFhirToCcdaDateTime(BirthDateTime(patient))],
             raceCode |-> [ code |-> raceCode,
                            codeSystem |-> "2.16.840.1.113883.6.238",
                            codeSystemName |-> "CDCREC" ],
             ethnicGroupCode |-> [ code |-> ethnicityCode,
                                   codeSystem |-> "2.16.840.1.113883.6.238",
                                   codeSystemName |-> "CDCREC" ],
             languageCommunication |->
               [ templateId |->
                   << [root |-> "2.16.840.1.113883.3.88.11.83.2", assigningAuthorityName |-> "HITSP/C83"],
                      [root |-> "1.3.6.1.4.1.19376.1.5.3.1.2.1", assigningAuthorityName |-> "IHE/PCC"] >>,
                 languageCode |-> [code |-> "eng"] ] ] ] ]

buildAuthor(options, currentDateTime) ==
  LET authorNpi == OrElse(Prop(Sub(options, "author"), "npi"), "1250504853")
      authorName == OrElse(Prop(Sub(options, "author"), "name"), "Medplum Test System")
      orgAddress == Sub(Sub(options, "organization"), "address")
  IN [ time |-> [value |-> mapFhirToCcdaDateTime(currentDateTime)],
       assignedAuthor |->
         [ id |-> [extension |-> authorNpi, root |-> "2.16.840.1.113883.4.6"],
           addr |-> [ streetAddressLine |-> OrElse(Prop(orgAddress, "line"), "123 Happy St"),
                      city |-> OrElse(Prop(orgAddress, "city"), "Sunnyvale"),
                      state |-> OrElse(Prop(orgAddress, "state"), "CA"),
                      postalCode |-> OrElse(Prop(orgAddress, "postalCode"), "95008"),
                      country |-> OrElse(Prop(orgAddress, "country"), "US") ],
           telecom |-> [use |-> "WP", value |-> "tel:(781)271-3000"],
           assignedAuthoringDevice |->
             [manufacturerModelName |-> authorName, softwareName |-> authorName] ] ]

\* buildCustodian with the fallbacks written with ?? instead of ||
buildCustodian_nullish(options) ==
  LET orgName == Nullish(Prop(Sub(options, "organization"), "name"), "Medplum Test Deck")
      orgId == Nullish(Prop(Sub(options, "organization"), "id"), "117323")
      orgAddress == Sub(Sub(options, "organization"), "address")
  IN [ assignedCustodian |->
       [ representedCustodianOrganization |->
         [ id |-> [extension |-> orgId, root |-> "OID_CCN_SYSTEM"],
           name |-> orgName,
           telecom |-> [use |-> "WP", value |-> "tel:(781)271-3000"],
           addr |-> [ use |-> "HP",
                      streetAddressLine |-> Nullish(Prop(orgAddress, "line"), "202 Burlington Rd."),
                      city |-> Nullish(Prop(orgAddress, "city"), "Bedford"),
                      state |-> Nullish(Prop(orgAddress, "state"), "MA"),
                      postalCode |-> Nullish(Prop(orgAddress, "postalCode"), "01730"),
                      country |-> Nullish(Prop(orgAddress, "country"), "US") ] ] ] ]

buildCustodian(options) ==
  LET orgName == OrElse(Prop(Sub(options, "organization"), "name"), "Medplum Test Deck")
      orgId == OrElse(Prop(Sub(options, "organization"), "id"), "117323")
      orgAddress == Sub(Sub(options, "organization"), "address")
  IN [ assignedCustodian |->
       [ representedCustodianOrganization |->
         [ id |-> [extension |-> orgId, root |-> "OID_CCN_SYSTEM"],
           name |-> orgName,
           telecom |-> [use |-> "WP", value |-> "tel:(781)271-3000"],
           addr |-> [ use |-> "HP",
                      streetAddressLine |-> OrElse(Prop(orgAddress, "line"), "202 Burlington Rd."),
                      city |-> OrElse(Prop(orgAddress, "city"), "Bedford"),
                      state |-> OrElse(Prop(orgAddress, "state"), "MA"),
                      postalCode |-> OrElse(Prop(orgAddress, "postalCode"), "01730"),
                      country |-> OrElse(Prop(orgAddress, "country"), "US") ] ] ] ]

\* id: the token the generateId() call of line 294 returned
buildLegalAuthenticator(options, currentDateTime, id) ==
  LET orgAddress == Sub(Sub(options, "organization"), "address")
  IN [ time |-> [value |-> mapFhirToCcdaDateTime(currentDateTime)],
       signatureCode |-> [code |-> "S"],
       assignedEntity |->
         [ id |-> [root |-> id],
           addr |-> [ streetAddressLine |-> OrElse(Prop(orgAddress, "line"), "123 Happy St"),
                      city |-> OrElse(Prop(orgAddress, "city"), "Sunnyvale"),
                      state |-> OrElse(Prop(orgAddress, "state"), "CA"),
                      postalCode |-> OrElse(Prop(orgAddress, "postalCode"), "95008"),
                      country |-> OrElse(Prop(orgAddress, "country"), "US") ],
           telecom |-> [use |-> "WP", value |-> "tel:(781)271-3000"],
           assignedPerson |-> [name |-> [given |-> "John", family |-> "Doe"]],
           representedOrganization |->
             [ id |-> [root |-> "OID_ORGANIZATION_ID"],
               name |-> OrElse(Prop(Sub(options, "organization"), "name"), "Medplum Test System") ] ] ]

buildParticipant ==
  << [ typeCode |-> "DEV",
       associatedEntity |->
         [ classCode |-> "RGPR",
           id |-> [extension |-> "0015CPV4ZTB4WBU", root |-> "OID_CMS_EHR_CERTIFICATION_NUMBER"] ] ] >>

buildDocumentationOf(options) ==
  LET orgAddress == Sub(Sub(options, "organization"), "address")
      addr == [ use |-> "HP",
                streetAddressLine |-> OrElse(Prop(orgAddress, "line"), "202 Burlington Rd."),
                city |-> OrElse(Prop(orgAddress, "city"), "Bedford"),
                state |-> OrElse(Prop(orgAddress, "state"), "MA"),
                postalCode |-> OrElse(Prop(orgAddress, "postalCode"), "01730"),
                country |-> OrElse(Prop(orgAddress, "country"), "US") ]
      unknown == [low |-> [nullFlavor |-> "UNK"], high |-> [nullFlavor |-> "UNK"]]
  IN [ typeCode |-> "DOC",
       serviceEvent |->
         [ classCode |-> "PCPR",
           effectiveTime |-> unknown,
           performer |->
             [ typeCode |-> "PRF",
               time |-> unknown,
               assignedEntity |->
                 [ id |-> << [ extension |-> OrElse(Prop(Sub(options, "author"), "npi"), "1250504853"),
                               root |-> "2.16.840.1.113883.4.6" ],
                             [ extension |-> OrElse(Prop(Sub(options, "organization"), "id"), "117323"),
                               root |-> "OID_CCN_SYSTEM" ] >>,
                   code |-> [ code |-> "207Q00000X",
                              codeSystem |-> "2.16.840.1.113883.6.101",
                              codeSystemName |-> "Healthcare Provider Taxonomy (HIPAA)" ],
                   addr |-> addr,
                   assignedPerson |-> [name |-> [given |-> "Sylvia", family |-> "Joseph"]],
                   representedOrganization |->
                     [ id |-> [extension |-> "916854671", root |-> "OID_ITIN_ID"],
                       addr |-> addr ] ] ] ] ]

\* buildMeasureSection with the setId fallback written with ?? instead of ||
buildMeasureSection_nullishSetId(options, id) ==
  LET measureId == OrElse(Prop(Sub(options, "measure"), "id"), "CMS68v14")
      measureTitle ==
        OrElse(Prop(Sub(options, "measure"), "title"),
               "Percentage of visits for which the eligible clinician attests to documenting a list of current medications using all immediate resources available on the date of the encounter")
      measureVersionId == "8A6D0454-8DF0-2D9F-018D-F6AEBA950637"
  IN [ section |->
       [ templateId |-> "QRDA_MEASURE_SECTION_TEMPLATE_IDS",
         code |-> [code |-> LOINC_MEASURE_DOCUMENT, codeSystem |-> "OID_LOINC_CODE_SYSTEM"],
         title |-> "Measure Section",
         text |->
           [ table |->
             [ border |-> "1",
               width |-> "100%",
               thead |-> [tr |-> [th |-> <<"eMeasure Title", "Version specific identifier">>]],
               tbody |-> [tr |-> [td |-> <<measureTitle, measureVersionId, "">>]] ] ],
         entry |->
           [ organizer |->
             [ classCode |-> "CLUSTER",
               moodCode |-> "EVN",
               templateId |-> "QRDA_MEASURE_REFERENCE_TEMPLATE_IDS",
               id |-> [extension |-> id, root |-> "OID_PATIENT_ID"],
               statusCode |-> [code |-> "completed"],
               reference |->
                 [ typeCode |-> "REFR",
                   externalDocument |->
                     [ classCode |-> "DOC",
                       moodCode |-> "EVN",
                       id |-> [extension |-> measureVersionId, root |-> "OID_ECQM_VERSION_SPECIFIC_ID"],
                       text |-> measureTitle,
                       setId |-> [root |-> Nullish(Prop(Sub(options, "measure"), "setId"),
                                                 CMS68V14_MEASURE_GUID)] ] ] ] ] ] ]

\* id: the token the generateId() call of line 444 returned
buildMeasureSection(options, id) ==
  LET measureId == OrElse(Prop(Sub(options, "measure"), "id"), "CMS68v14")
      measureTitle ==
        OrElse(Prop(Sub(options, "measure"), "title"),
               "Percentage of visits for which the eligible clinician attests to documenting a list of current medications using all immediate resources available on the date of the encounter")
      measureVersionId == "8A6D0454-8DF0-2D9F-018D-F6AEBA950637"
  IN [ section |->
       [ templateId |-> "QRDA_MEASURE_SECTION_TEMPLATE_IDS",
         code |-> [code |-> LOINC_MEASURE_DOCUMENT, codeSystem |-> "OID_LOINC_CODE_SYSTEM"],
         title |-> "Measure Section",
         text |->
           [ table |->
             [ border |-> "1",
               width |-> "100%",
               thead |-> [tr |-> [th |-> <<"eMeasure Title", "Version specific identifier">>]],
               tbody |-> [tr |-> [td |-> <<measureTitle, measureVersionId, "">>]] ] ],
         entry |->
           [ organizer |->
             [ classCode |-> "CLUSTER",
               moodCode |-> "EVN",
               templateId |-> "QRDA_MEASURE_REFERENCE_TEMPLATE_IDS",
               id |-> [extension |-> id, root |-> "OID_PATIENT_ID"],
               statusCode |-> [code |-> "completed"],
               reference |->
                 [ typeCode |-> "REFR",
                   externalDocument |->
                     [ classCode |-> "DOC",
                       moodCode |-> "EVN",
                       id |-> [extension |-> measureVersionId, root |-> "OID_ECQM_VERSION_SPECIFIC_ID"],
                       text |-> measureTitle,
                       setId |-> [root |-> OrElse(Prop(Sub(options, "measure"), "setId"),
                                                 CMS68V14_MEASURE_GUID)] ] ] ] ] ] ]

\* buildReportingParametersSection with low and high taken from the wrong ends
buildReportingParametersSection_swapped(options, id) ==
  [ section |->
    [ templateId |-> "QRDA_REPORTING_PARAMETERS_TEMPLATE_IDS",
      code |-> [code |-> LOINC_REPORTING_PARAMETERS, codeSystem |-> "OID_LOINC_CODE_SYSTEM"],
      title |-> "Reporting Parameters",
      text |-> "",
      entry |->
        [ typeCode |-> "DRIV",
          act |->
            [ classCode |-> "ACT",
              moodCode |-> "EVN",
              templateId |-> "QRDA_REPORTING_PARAMETERS_ACT_TEMPLATE_IDS",
              id |-> [extension |-> id, root |-> "OID_PATIENT_ID"],
              code |-> [ code |-> SNOMED_OBSERVATION_PARAMETERS,
                         codeSystem |-> "2.16.840.1.113883.6.96",
                         displayName |-> "Observation Parameters" ],
              effectiveTime |->
                [ low |-> [value |-> mapFhirToCcdaDateTime(options.reportingPeriod.end)],
                  high |-> [value |-> mapFhirToCcdaDateTime(options.reportingPeriod.start)] ] ] ] ] ]

\* id: the token the generateId() call of line 479 returned
buildReportingParametersSection(options, id) ==
  [ section |->
    [ templateId |-> "QRDA_REPORTING_PARAMETERS_TEMPLATE_IDS",
      code |-> [code |-> LOINC_REPORTING_PARAMETERS, codeSystem |-> "OID_LOINC_CODE_SYSTEM"],
      title |-> "Reporting Parameters",
      text |-> "",
      entry |->
        [ typeCode |-> "DRIV",
          act |->
            [ classCode |-> "ACT",
              moodCode |-> "EVN",
              templateId |-> "QRDA_REPORTING_PARAMETERS_ACT_TEMPLATE_IDS",
              id |-> [extension |-> id, root |-> "OID_PATIENT_ID"],
              code |-> [ code |-> SNOMED_OBSERVATION_PARAMETERS,
                         codeSystem |-> "2.16.840.1.113883.6.96",
                         displayName |-> "Observation Parameters" ],
              effectiveTime |->
                [ low |-> [value |-> mapFhirToCcdaDateTime(options.reportingPeriod.start)],
                  high |-> [value |-> mapFhirToCcdaDateTime(options.reportingPeriod.end)] ] ] ] ] ]

buildPatientDataSection ==
  LET entries == <<>>
  IN [ section |->
       [ templateId |-> "QRDA_PATIENT_DATA_SECTION_TEMPLATE_IDS",
         code |-> [code |-> LOINC_PATIENT_DATA, codeSystem |-> "OID_LOINC_CODE_SYSTEM"],
         title |-> "Patient Data",
         text |-> "",
         entry |-> entries ] ]

\* buildStructuredBody that leaves out a section whose entry list is empty
buildStructuredBody_dropEmpty(options, n) ==
  [ structuredBody |->
    [ component |-> << buildMeasureSection(options, generateId(n)),
                       buildReportingParametersSection(options, generateId(n + 1)) >> ] ]

\* buildStructuredBody that generates one token and uses it for both entries
buildStructuredBody_cachedId(options, n) ==
  [ structuredBody |->
    [ component |-> << buildMeasureSection(options, generateId(n)),
                       buildReportingParametersSection(options, generateId(n)),
                       buildPatientDataSection >> ] ]

\* n: the state of the ID generator when the body is built; the two
\* generateId() calls happen in source order
buildStructuredBody(options, n) ==
  [ structuredBody |->
    [ component |-> << buildMeasureSection(options, generateId(n)),
                       buildReportingParametersSection(options, generateId(n + 1)),
                       buildPatientDataSection >> ] ]

\* the addresses of the template arrays a Document's nodes hold
TemplateRefs(doc) ==
  LET body == doc.component.structuredBody.component
  IN { doc.templateId,
       body[1].section.templateId,
       body[1].section.entry.organizer.templateId,
       body[2].section.templateId,
       body[2].section.entry.act.templateId,
       body[3].section.templateId }

(***************************************************************************)
(* convert and convertFhirToQrda.                                          *)
(*                                                                         *)
(* The build is synchronous but takes time: t0 is the clock reading at     *)
(* line 126, tAuthor and tLegal the readings when buildAuthor and          *)
(* buildLegalAuthenticator run.  n is the state of the ID generator on     *)
(* entry; generateId() is called in source order (lines 135, 294, 444,     *)
(* 479).                                                                   *)
(***************************************************************************)
\* convert with each builder sampling the clock when it runs
convert_resampled(patient, options, t0, tAuthor, tLegal, n) ==
  LET currentDateTime == toISOString(t0)
  IN [ realmCode |-> [code |-> "US"],
       typeId |-> [root |-> "OID_HL7_REGISTERED_MODELS", extension |-> "POCD_HD000040"],
       templateId |-> "QRDA_CATEGORY_I_TEMPLATE_IDS",
       id |-> <<[root |-> generateId(n)]>>,
       code |-> [ code |-> LOINC_QUALITY_MEASURE_REPORT,
                  codeSystem |-> "OID_LOINC_CODE_SYSTEM",
                  codeSystemName |-> "LOINC",
                  displayName |-> "Quality Measure Report" ],
       title |-> "QRDA Incidence Report",
       effectiveTime |-> <<[value |-> mapFhirToCcdaDateTime(currentDateTime)]>>,
       confidentialityCode |-> [code |-> "N", codeSystem |-> "2.16.840.1.113883.5.25"],
       languageCode |-> [code |-> "en"],
       recordTarget |-> buildRecordTarget(patient),
       author |-> buildAuthor(options, toISOString(tAuthor)),
       custodian |-> buildCustodian(options),
       legalAuthenticator |-> buildLegalAuthenticator(options, toISOString(tLegal), generateId(n + 1)),
       participant |-> buildParticipant,
       documentationOf |-> buildDocumentationOf(options),
       component |-> buildStructuredBody(options, n + 2) ]

convert(patient, options, t0, tAuthor, tLegal, n) ==
  LET currentDateTime == toISOString(t0)
  IN [ realmCode |-> [code |-> "US"],
       typeId |-> [root |-> "OID_HL7_REGISTERED_MODELS", extension |-> "POCD_HD000040"],
       templateId |-> "QRDA_CATEGORY_I_TEMPLATE_IDS",
       id |-> <<[root |-> generateId(n)]>>,
       code |-> [ code |-> LOINC_QUALITY_MEASURE_REPORT,
                  codeSystem |-> "OID_LOINC_CODE_SYSTEM",
                  codeSystemName |-> "LOINC",
                  displayName |-> "Quality Measure Report" ],
       title |-> "QRDA Incidence Report",
       effectiveTime |-> <<[value |-> mapFhirToCcdaDateTime(currentDateTime)]>>,
       confidentialityCode |-> [code |-> "N", codeSystem |-> "2.16.840.1.113883.5.25"],
       languageCode |-> [code |-> "en"],
       recordTarget |-> buildRecordTarget(patient),
       author |-> buildAuthor(options, currentDateTime),
       custodian |-> buildCustodian(options),
       legalAuthenticator |-> buildLegalAuthenticator(options, currentDateTime, generateId(n + 1)),
       participant |-> buildParticipant,
       documentationOf |-> buildDocumentationOf(options),
       component |-> buildStructuredBody(options, n + 2) ]

MissingRequiredResource == "Patient not found in bundle"
CanonicalizationError == "canonicalization error"
Returned == "returned"
NoDoc == [nodoc |-> TRUE]

\* convertFhirToQrda with the patient looked up when recordTarget is built
\* rather than in the constructor
convertFhirToQrda_lazyPatient(bundle, options, t0, tAuthor, tLegal, n) ==
  LET patient == findResource(bundle, "Patient")
  IN IF patient = Empty
     THEN [outcome |-> MissingRequiredResource, doc |-> NoDoc, clockReads |-> 1, idCalls |-> 1]
     ELSE IF ~Parseable(BirthDateTime(patient))
     THEN [outcome |-> CanonicalizationError, doc |-> NoDoc, clockReads |-> 1, idCalls |-> 1]
     ELSE IF ~Parseable(options.reportingPeriod.start) \/ ~Parseable(options.reportingPeriod.end)
     THEN [outcome |-> CanonicalizationError, doc |-> NoDoc, clockReads |-> 1, idCalls |-> 4]
     ELSE [ outcome |-> Returned,
            doc |-> convert(patient, options, t0, tAuthor, tLegal, n),
            clockReads |-> 1, idCalls |-> 4 ]

\* convertFhirToQrda with patient.name[0] read without optional chaining,
\* which throws on a Patient that has no name
convertFhirToQrda_nameRequired(bundle, options, t0, tAuthor, tLegal, n) ==
  LET patient == findResource(bundle, "Patient")
  IN IF patient = Empty
     THEN [outcome |-> MissingRequiredResource, doc |-> NoDoc, clockReads |-> 0, idCalls |-> 0]
     ELSE IF ~Has(patient, "name")
     THEN [outcome |-> "TypeError", doc |-> NoDoc, clockReads |-> 1, idCalls |-> 1]
     ELSE IF ~Parseable(BirthDateTime(patient))
     THEN [outcome |-> CanonicalizationError, doc |-> NoDoc, clockReads |-> 1, idCalls |-> 1]
     ELSE IF ~Parseable(options.reportingPeriod.start) \/ ~Parseable(options.reportingPeriod.end)
     THEN [outcome |-> CanonicalizationError, doc |-> NoDoc, clockReads |-> 1, idCalls |-> 4]
     ELSE [ outcome |-> Returned,
            doc |-> convert(patient, options, t0, tAuthor, tLegal, n),
            clockReads |-> 1, idCalls |-> 4 ]

\* One call of convertFhirToQrda: how it ends, the Document it returns,
\* and how often it read the clock and called generateId() on the way.
\* The constructor throws before convert() runs; a timestamp the
\* canonicalizer rejects makes convert() throw where the builder calls it.
convertFhirToQrda(bundle, options, t0, tAuthor, tLegal, n) ==
  LET patient == findResource(bundle, "Patient")
  IN IF patient = Empty
     THEN [outcome |-> MissingRequiredResource, doc |-> NoDoc, clockReads |-> 0, idCalls |-> 0]
     ELSE IF ~Parseable(BirthDateTime(patient))
     THEN [outcome |-> CanonicalizationError, doc |-> NoDoc, clockReads |-> 1, idCalls |-> 1]
     ELSE IF ~Parseable(options.reportingPeriod.start) \/ ~Parseable(options.reportingPeriod.end)
     THEN [outcome |-> CanonicalizationError, doc |-> NoDoc, clockReads |-> 1, idCalls |-> 4]
     ELSE [ outcome |-> Returned,
            doc |-> convert(patient, options, t0, tAuthor, tLegal, n),
            clockReads |-> 1, idCalls |-> 4 ]

(***************************************************************************)
(* Inputs: bundles and options records the callers supply.                 *)
(***************************************************************************)
Chars19800506 == <<"1", "9", "8", "0", "-", "0", "5", "-", "0", "6">>
Chars20230101 == <<"2", "0", "2", "3", "-", "0", "1", "-", "0", "1">>
Chars20231231 == <<"2", "0", "2", "3", "-", "1", "2", "-", "3", "1">>
CharsMidnightZ == <<"T", "0", "0", ":", "0", "0", ":", "0", "0", ".", "0", "0", "0", "Z">>
CharsLastSecondZ == <<"T", "2", "3", ":", "5", "9", ":", "5", "9", ".", "9", "9", "9", "Z">>
CharsGarbage == <<"Q", "1">>

PatientMin == [resourceType |-> "Patient", id |-> "p-min", birthDate |-> Chars19800506]

PatientFull ==
  [ resourceType |-> "Patient", id |-> "p-full", gender |-> "female",
    birthDate |-> Chars19800506,
    name |-> << [given |-> <<"Ada", "M">>, family |-> "Byron"], [family |-> "Lovelace"] >>,
    address |-> << [line |-> <<"1 Main St">>, city |-> "Boston", state |-> "MA", postalCode |-> "02101"] >>,
    telecom |-> << [system |-> "phone", value |-> "555-1234"],
                   [system |-> "email", value |-> "ada@example.org"] >> ]

PatientEmailFirst ==
  [ resourceType |-> "Patient", id |-> "p-mix", birthDate |-> Chars19800506,
    telecom |-> << [system |-> "email", value |-> "first@example.org"],
                   [system |-> "fax", value |-> "555-0000"],
                   [system |-> "phone", value |-> "555-1111"],
                   [system |-> "phone", value |-> "555-2222"],
                   [system |-> "email", value |-> "second@example.org"] >> ]

PatientPhoneOnly ==
  [ resourceType |-> "Patient", id |-> "p-phone", birthDate |-> Chars19800506,
    telecom |-> << [system |-> "phone", value |-> "555-1234"] >> ]

PatientEmailOnly ==
  [ resourceType |-> "Patient", id |-> "p-email", birthDate |-> Chars19800506,
    telecom |-> << [value |-> "no-system"], [system |-> "email", value |-> "ada@example.org"] >> ]

PatientPhoneNoValue ==
  [ resourceType |-> "Patient", id |-> "p-noval", birthDate |-> Chars19800506,
    telecom |-> << [system |-> "phone"] >> ]

PatientEmptyTelecom ==
  [ resourceType |-> "Patient", id |-> "p-empty", birthDate |-> Chars19800506,
    telecom |-> << >> ]

PatientNoBirthDate == [resourceType |-> "Patient", id |-> "p-nobirth"]

Observation == [resourceType |-> "Observation", id |-> "o1"]

BundleOf(resources) ==
  [ resourceType |-> "Bundle",
    entry |-> [i \in 1..Len(resources) |-> [resource |-> resources[i]]] ]

BundleNoEntry == [resourceType |-> "Bundle"]
BundleNoResource == [resourceType |-> "Bundle", entry |-> <<[fullUrl |-> "urn:uuid:1"]>>]

NoPatientBundles ==
  {BundleNoEntry, BundleOf(<<>>), BundleOf(<<Observation>>), BundleNoResource}

Period2023 == [start |-> Chars20230101, end |-> Chars20231231]

OptMin == [reportingPeriod |-> Period2023]

OptDateTimePeriod ==
  [reportingPeriod |-> [ start |-> Chars20230101 \o CharsMidnightZ,
                         end |-> Chars20231231 \o CharsLastSecondZ ]]
OptOneDay == [reportingPeriod |-> [start |-> Chars20230101, end |-> Chars20230101]]
OptBadStart == [reportingPeriod |-> [start |-> CharsGarbage, end |-> Chars20231231]]
OptBadEnd == [reportingPeriod |-> [start |-> Chars20230101, end |-> CharsGarbage]]

OptMeasureFull ==
  [ reportingPeriod |-> Period2023,
    measure |-> [ id |-> "CMS2v13", title |-> "Depression Screening",
                  version |-> "2C928082-74C2-3313-0174-C60BD07B02A6",
                  setId |-> "9A031E24-3D9B-11E1-8634-00237D5BF174" ] ]
OptMeasureVersionOnly ==
  [ reportingPeriod |-> Period2023,
    measure |-> [version |-> "2C928082-74C2-3313-0174-C60BD07B02A6"] ]
OptMeasureTitleOnly ==
  [reportingPeriod |-> Period2023, measure |-> [title |-> "Depression Screening"]]
OptMeasureEmptySetId ==
  [reportingPeriod |-> Period2023, measure |-> [id |-> "CMS2v13", setId |-> ""]]

OptOrgFull ==
  [ reportingPeriod |-> Period2023,
    organization |-> [ name |-> "General Hospital", id |-> "990001", npi |-> "1234567893",
                       address |-> [ line |-> "9 Elm St", city |-> "Salem", state |-> "OR",
                                     postalCode |-> "97301", country |-> "CA" ] ],
    author |-> [name |-> "Acme EHR", npi |-> "1111111112"] ]
OptOrgEmptyStrings ==
  [ reportingPeriod |-> Period2023,
    organization |-> [ name |-> "", id |-> "",
                       address |-> [ line |-> "", city |-> "", state |-> "",
                                     postalCode |-> "", country |-> "" ] ],
    author |-> [name |-> "", npi |-> ""] ]
OptOrgNameOnly ==
  [reportingPeriod |-> Period2023, organization |-> [name |-> "General Hospital"]]
OptOrgCityOnly ==
  [ reportingPeriod |-> Period2023,
    organization |-> [id |-> "990001", address |-> [city |-> "Salem"]] ]

\* Each pool is the set of (bundle, options) pairs the callers of one run
\* draw from.
PoolNoPatient ==
  (NoPatientBundles \X {OptMin, OptBadStart})
    \cup {<<BundleOf(<<Observation>>), OptOrgFull>>, <<BundleOf(<<PatientMin>>), OptMin>>}

PoolFirstMatch ==
  { BundleOf(<<Observation, PatientFull, PatientMin>>), BundleOf(<<PatientEmptyTelecom>>),
    BundleOf(<<PatientNoBirthDate>>), BundleOf(<<Observation, PatientNoBirthDate, PatientMin>>) }
    \X {OptMin}

PoolTelecomA ==
  {BundleOf(<<PatientMin>>), BundleOf(<<PatientFull>>), BundleOf(<<PatientEmailFirst>>)}
    \X {OptMin}

PoolTelecomB ==
  { BundleOf(<<PatientPhoneOnly>>), BundleOf(<<PatientEmailOnly>>),
    BundleOf(<<PatientPhoneNoValue>>) } \X {OptMin}

PoolPeriods ==
  {BundleOf(<<PatientMin>>)} \X {OptMin, OptDateTimePeriod, OptOneDay, OptBadStart, OptBadEnd}

PoolMeasuresA ==
  {BundleOf(<<PatientMin>>)} \X {OptMin, OptMeasureFull, OptMeasureVersionOnly}

PoolMeasuresB ==
  {BundleOf(<<PatientFull>>)} \X {OptMeasureTitleOnly, OptMeasureEmptySetId}

PoolOrganizationsA ==
  {BundleOf(<<PatientMin>>)} \X {OptMin, OptOrgFull, OptOrgEmptyStrings}

PoolOrganizationsB ==
  {BundleOf(<<PatientFull>>)} \X {OptOrgNameOnly, OptOrgCityOnly}

InputPools ==
  { PoolNoPatient, PoolFirstMatch, PoolTelecomA, PoolTelecomB, PoolPeriods,
    PoolMeasuresA, PoolMeasuresB, PoolOrganizationsA, PoolOrganizationsB }

\* what a caller appends to a template list of a Document it was handed
ExtraTemplateId == [root |-> "OID_CALLER_PROFILE", extension |-> "2024-01-01"]

(***************************************************************************)
(* The state machine.                                                      *)
(***************************************************************************)
Init ==
  /\ heap = RegistryTables
  /\ docs = <<>>
  /\ last = [ called |-> FALSE, bundle |-> Empty, options |-> Empty,
              outcome |-> "none", doc |-> 0, clockReads |-> 0, idCalls |-> 0,
              started |-> 0, finished |-> 0 ]
  /\ clock = 0
  /\ nextId = 0
  /\ calls = 0
  /\ pushes = 0
  /\ pool \in InputPools

\* A caller invokes convertFhirToQrda(bundle, options).
Assemble(bundle, options) ==
  /\ calls < MaxCalls
  /\ calls' = calls + 1
  /\ \E tAuthor \in clock..MaxClock :
       \E tLegal \in tAuthor..MaxClock :
         LET r == convertFhirToQrda(bundle, options, clock, tAuthor, tLegal, nextId)
         IN /\ clock' = IF r.outcome = Returned THEN tLegal ELSE clock
            /\ docs' = IF r.outcome = Returned THEN Append(docs, r.doc) ELSE docs
            /\ last' = [ called |-> TRUE, bundle |-> bundle, options |-> options,
                         outcome |-> r.outcome,
                         doc |-> IF r.outcome = Returned THEN Len(docs) + 1 ELSE 0,
                         clockReads |-> r.clockReads, idCalls |-> r.idCalls,
                         started |-> clock, finished |-> clock' ]
            /\ nextId' = nextId + r.idCalls
  /\ UNCHANGED <<heap, pushes, pool>>

\* Time passes between calls.
Tick ==
  /\ clock < MaxClock
  /\ clock' = clock + 1
  /\ UNCHANGED <<heap, docs, last, nextId, calls, pushes, pool>>

\* the header templateId list and the sections' templateId lists of a Document
HeaderAndSectionRefs(doc) ==
  {doc.templateId}
    \cup { doc.component.structuredBody.component[k].section.templateId :
             k \in 1..Len(doc.component.structuredBody.component) }

\* A caller appends an identifier to the header templateId list or to a
\* section's templateId list of a Document it was handed (the lists are
\* plain mutable arrays).
CallerPush(i, addr) ==
  /\ pushes < MaxPushes
  /\ i \in 1..Len(docs)
  /\ addr \in HeaderAndSectionRefs(docs[i])
  /\ heap' = [heap EXCEPT ![addr] = Append(@, ExtraTemplateId)]
  /\ pushes' = pushes + 1
  /\ UNCHANGED <<docs, last, clock, nextId, calls, pool>>

Next ==
  \/ \E in \in pool : Assemble(in[1], in[2])
  \/ Tick
  \/ \E i \in 1..MaxCalls : \E addr \in RegistryAddrs : CallerPush(i, addr)

Spec == Init /\ [][Next]_vars

TypeOK ==
  /\ DOMAIN heap = RegistryAddrs
  /\ calls \in 0..MaxCalls
  /\ Len(docs) <= calls
  /\ clock \in 0..MaxClock
  /\ nextId \in 0..(4 * calls)
  /\ pushes \in 0..MaxPushes
  /\ last.doc \in 0..Len(docs)

(***************************************************************************)
(* Properties.                                                             *)
(***************************************************************************)
\* the bundle holds no Patient-kind record: entry absent, empty, or
\* holding only other kinds
NoPatientRecord(bundle) ==
  \/ ~Has(bundle, "entry")
  \/ \A i \in 1..Len(bundle.entry) :
       \/ ~Has(bundle.entry[i], "resource")
       \/ bundle.entry[i].resource.resourceType # "Patient"

LastReturned == last.called /\ last.outcome = Returned

LastDoc == docs[last.doc]

\* C1: a call on a bundle without a Patient record, whatever the options,
\* fails with the missing-patient error, returns no Document, and fails
\* before the build starts: the clock is not read and generateId() is not
\* called.
C1_MissingPatientFailsFirst ==
  [][ (calls' = calls + 1 /\ NoPatientRecord(last'.bundle))
        => /\ last'.outcome = MissingRequiredResource
           /\ last'.doc = 0
           /\ docs' = docs
           /\ last'.clockReads = 0
           /\ last'.idCalls = 0
           /\ nextId' = nextId ]_vars

C1_Witness ==
  /\ last.called
  /\ last.bundle = BundleOf(<<Observation>>)
  /\ last.options = OptBadStart
  /\ last.outcome = MissingRequiredResource
  /\ Len(docs) = 1

DocumentFields ==
  { "realmCode", "typeId", "templateId", "id", "code", "title", "effectiveTime",
    "confidentialityCode", "languageCode", "recordTarget", "author", "custodian",
    "legalAuthenticator", "participant", "documentationOf", "component" }

C3_NoSharedNodes ==
  \A i \in 1..Len(docs) :
    /\ TemplateRefs(docs[i]) \cap RegistryAddrs = {}
    /\ \A j \in 1..Len(docs) :
         i # j => TemplateRefs(docs[i]) \cap TemplateRefs(docs[j]) = {}

\* C4 as stated: whenever a call returns a Document, in any sequence of
\* calls, the Document's header templateId is the four-entry
\* document-header set, in the declared order.
C4_HeaderIsDeclaredSet ==
  [][ Len(docs') > Len(docs)
        => heap'[docs'[Len(docs')].templateId] = QRDA_CATEGORY_I_TEMPLATE_IDS ]_vars

SectionCodes(doc) ==
  [ k \in 1..Len(doc.component.structuredBody.component) |->
      doc.component.structuredBody.component[k].section.code.code ]

\* C5: every returned Document's structured body holds exactly three
\* sections, in the order measure (55186-1), reporting parameters (55187-9),
\* patient data (55188-7), whatever the bundle and options hold.
C5_ThreeSectionsInOrder ==
  \A i \in 1..Len(docs) :
    SectionCodes(docs[i]) = <<"55186-1", "55187-9", "55188-7">>

C5_Witness ==
  /\ LastReturned
  /\ last.options = OptMeasureFull
  /\ Len(docs) = 2
  /\ Len(LastDoc.component.structuredBody.component[3].section.entry) = 0

\* C6: in every returned Document the document effectiveTime, the author
\* time and the legalAuthenticator time are the canonical form of the one
\* clock reading taken when the build started.
C6_OneTimestamp ==
  /\ \A i \in 1..Len(docs) :
       /\ docs[i].author.time.value = docs[i].effectiveTime[1].value
       /\ docs[i].legalAuthenticator.time.value = docs[i].effectiveTime[1].value
  /\ LastReturned =>
       LastDoc.effectiveTime[1].value = mapFhirToCcdaDateTime(toISOString(last.started))

\* the clock advanced while the latest Document was being built
C6_Witness ==
  /\ LastReturned
  /\ last.finished > last.started
  /\ LastDoc.effectiveTime[1].value # mapFhirToCcdaDateTime(toISOString(last.finished))

\* the tokens generateId() returned for one Document, by call site
GeneratedIds(doc) ==
  << doc.id[1].root,
     doc.legalAuthenticator.assignedEntity.id.root,
     doc.component.structuredBody.component[1].section.entry.organizer.id.extension,
     doc.component.structuredBody.component[2].section.entry.act.id.extension >>

IdSet(doc) == {GeneratedIds(doc)[k] : k \in 1..4}

\* C7: a successful assembly calls generateId() exactly four times, once
\* per call site; the four identifiers of a Document are pairwise distinct
\* and no identifier of one Document occurs in another.
C7_FreshIdPerCallSite ==
  /\ LastReturned => last.idCalls = 4
  /\ \A i \in 1..Len(docs) :
       /\ Cardinality(IdSet(docs[i])) = 4
       /\ IdSet(docs[i]) \subseteq {generateId(k) : k \in 0..(nextId - 1)}
       /\ \A j \in 1..Len(docs) : i # j => IdSet(docs[i]) \cap IdSet(docs[j]) = {}

\* two Documents built from the same bundle and options
C7_Witness ==
  /\ Len(docs) = 2
  /\ docs[1].recordTarget = docs[2].recordTarget
  /\ docs[1].custodian = docs[2].custodian
  /\ nextId = 8

\* the telecom values the claim describes for a patient
ExpectedTelecomValues(patient) ==
  LET telecoms == IF Has(patient, "telecom") THEN patient.telecom ELSE <<>>
      phones == SelectSeq(telecoms, LAMBDA t : Has(t, "system") /\ t.system = "phone")
      emails == SelectSeq(telecoms, LAMBDA t : Has(t, "system") /\ t.system = "email")
  IN (IF Len(phones) > 0 THEN <<"tel:" \o Render(Prop(phones[1], "value"))>> ELSE <<>>)
       \o (IF Len(emails) > 0 THEN <<"mailto:" \o Render(Prop(emails[1], "value"))>> ELSE <<>>)

LastTelecom == LastDoc.recordTarget.patientRole.telecom

\* C8: recordTarget's telecom list holds "tel:" + the first phone's value
\* exactly when the patient has a phone telecom, then "mailto:" + the first
\* email's value exactly when the patient has an email telecom, and nothing
\* else: no absent entry, and no entry at all for a patient without telecoms.
C8_TelecomEntryByEntry ==
  LastReturned =>
    /\ \A k \in 1..Len(LastTelecom) : LastTelecom[k] # UndefinedObj /\ Has(LastTelecom[k], "value")
    /\ [k \in 1..Len(LastTelecom) |-> LastTelecom[k].value]
         = ExpectedTelecomValues(findResource(last.bundle, "Patient"))

\* a patient whose first email precedes the first of two phones
C8_Witness ==
  /\ LastReturned
  /\ last.bundle = BundleOf(<<PatientEmailFirst>>)
  /\ Len(LastTelecom) = 2
  /\ LastTelecom[1].value = "tel:555-1111"

LastPeriod == LastDoc.component.structuredBody.component[2].section.entry.act.effectiveTime

\* C9: the reporting-parameters act's effectiveTime has low equal to the
\* canonical form of reportingPeriod.start and high equal to the canonical
\* form of reportingPeriod.end.
C9_PeriodLowHigh ==
  LastReturned =>
    /\ LastPeriod.low.value = mapFhirToCcdaDateTime(last.options.reportingPeriod.start)
    /\ LastPeriod.high.value = mapFhirToCcdaDateTime(last.options.reportingPeriod.end)
    /\ DOMAIN LastPeriod.low = {"value"} /\ DOMAIN LastPeriod.high = {"value"}
    /\ last.options.reportingPeriod = Period2023 =>
         /\ LastPeriod.low.value = <<"2", "0", "2", "3", "0", "1", "0", "1">>
         /\ LastPeriod.high.value = <<"2", "0", "2", "3", "1", "2", "3", "1">>

C9_Witness ==
  /\ LastReturned
  /\ last.options = OptDateTimePeriod
  /\ LastPeriod.low.value # LastPeriod.high.value
  /\ LastPeriod.low.value # LastDoc.effectiveTime[1].value

LastMeasure == LastDoc.component.structuredBody.component[1].section

\* C10 as stated: when options.measure carries a version, the
\* externalDocument id and the version cell of the text table are that
\* version; the embedded identifier is used only when none is supplied.
C10_SuppliedVersionUsed ==
  (LastReturned /\ Prop(Sub(last.options, "measure"), "version") \notin {Undefined, ""})
    => /\ LastMeasure.entry.organizer.reference.externalDocument.id.extension
            = last.options.measure.version
       /\ LastMeasure.text.table.tbody.tr.td[2] = last.options.measure.version

LastSetId == LastMeasure.entry.organizer.reference.externalDocument.setId

\* C11: the measure section's externalDocument setId root is the embedded
\* reference-measure identifier CMS68V14_MEASURE_GUID when no measure option
\* is supplied or the supplied measure has no setId or an empty one, and is
\* the supplied setId when that is a non-empty string.
C11_SetIdSuppliedOrDefault ==
  LastReturned =>
    LET supplied ==
          IF Has(last.options, "measure") /\ Has(last.options.measure, "setId")
          THEN last.options.measure.setId
          ELSE Undefined
    IN /\ DOMAIN LastSetId = {"root"}
       /\ supplied \in {Undefined, ""} =>
            /\ LastSetId.root = CMS68V14_MEASURE_GUID
            /\ LastSetId.root = "9A032D9C-3D9B-11E1-8634-00237D5BF174"
       /\ supplied \notin {Undefined, ""} => LastSetId.root = supplied

\* a measure supplied with an empty setId
C11_Witness ==
  /\ LastReturned
  /\ last.options = OptMeasureEmptySetId
  /\ LastSetId.root = CMS68V14_MEASURE_GUID

\* options.organization.f as the caller supplied it, Undefined if omitted
SuppliedOrg(options, f) ==
  IF Has(options, "organization") /\ Has(options.organization, f)
  THEN options.organization[f]
  ELSE Undefined

\* options.organization.address.f as the caller supplied it
SuppliedOrgAddress(options, f) ==
  IF /\ Has(options, "organization")
     /\ Has(options.organization, "address")
     /\ Has(options.organization.address, f)
  THEN options.organization.address[f]
  ELSE Undefined

\* options.author.f as the caller supplied it
SuppliedAuthor(options, f) ==
  IF Has(options, "author") /\ Has(options.author, f) THEN options.author[f] ELSE Undefined

\* the caller's value when it is a non-empty string, the fallback otherwise
SuppliedOrFallback(v, fallback) == IF v \notin {Undefined, ""} THEN v ELSE fallback

PresentNonEmpty(obj, f) == Has(obj, f) /\ obj[f] \notin {Undefined, ""}

\* addr holds the caller's address fields where non-empty and the given
\* fallbacks elsewhere, each as a non-empty string
AddressSuppliedOrFallback(addr, options, fallback) ==
  /\ \A f \in {"streetAddressLine", "city", "state", "postalCode", "country"} :
       PresentNonEmpty(addr, f)
  /\ addr.streetAddressLine
       = SuppliedOrFallback(SuppliedOrgAddress(options, "line"), fallback.line)
  /\ \A f \in {"city", "state", "postalCode", "country"} :
       addr[f] = SuppliedOrFallback(SuppliedOrgAddress(options, f), fallback[f])

FallbackAddressOffice ==
  [ line |-> "202 Burlington Rd.", city |-> "Bedford", state |-> "MA",
    postalCode |-> "01730", country |-> "US" ]

FallbackAddressVendor ==
  [ line |-> "123 Happy St", city |-> "Sunnyvale", state |-> "CA",
    postalCode |-> "95008", country |-> "US" ]

\* C12: whether organization is omitted, partly supplied or supplied with
\* empty strings, every organization-derived field of the Document
\* (custodian name, id, address; author address; legalAuthenticator address
\* and represented organization name; documentationOf performer ids and
\* addresses) is a non-empty string: the caller's value when that is
\* non-empty, a fixed literal otherwise.
C12_OrganizationFieldsNeverEmpty ==
  LastReturned =>
    LET o == last.options
        custodian == LastDoc.custodian.assignedCustodian.representedCustodianOrganization
        author == LastDoc.author.assignedAuthor
        legal == LastDoc.legalAuthenticator.assignedEntity
        performer == LastDoc.documentationOf.serviceEvent.performer.assignedEntity
    IN /\ PresentNonEmpty(custodian, "name")
       /\ custodian.name = SuppliedOrFallback(SuppliedOrg(o, "name"), "Medplum Test Deck")
       /\ PresentNonEmpty(custodian.id, "extension")
       /\ custodian.id.extension = SuppliedOrFallback(SuppliedOrg(o, "id"), "117323")
       /\ AddressSuppliedOrFallback(custodian.addr, o, FallbackAddressOffice)
       /\ AddressSuppliedOrFallback(author.addr, o, FallbackAddressVendor)
       /\ AddressSuppliedOrFallback(legal.addr, o, FallbackAddressVendor)
       /\ PresentNonEmpty(legal.representedOrganization, "name")
       /\ legal.representedOrganization.name
            = SuppliedOrFallback(SuppliedOrg(o, "name"), "Medplum Test System")
       /\ Len(performer.id) = 2
       /\ \A k \in 1..2 : PresentNonEmpty(performer.id[k], "extension")
       /\ performer.id[1].extension
            = SuppliedOrFallback(SuppliedAuthor(o, "npi"), "1250504853")
       /\ performer.id[2].extension = SuppliedOrFallback(SuppliedOrg(o, "id"), "117323")
       /\ AddressSuppliedOrFallback(performer.addr, o, FallbackAddressOffice)
       /\ AddressSuppliedOrFallback(performer.representedOrganization.addr, o,
                                    FallbackAddressOffice)

\* an organization supplied with empty strings throughout
C12_Witness ==
  /\ LastReturned
  /\ last.options = OptOrgEmptyStrings
  /\ LastDoc.custodian.assignedCustodian.representedCustodianOrganization.name
       = "Medplum Test Deck"
  /\ LastDoc.author.assignedAuthor.addr.city = "Sunnyvale"

====
